---- MODULE Spec2Model ----
(***************************************************************************)
(* The cleaning engine of Customer-Churn-Prediction                        *)
(* (src/src/cleaning/cleaning.py, class DataCleaner), its schema registry  *)
(* (src/src/schema.py) and its ingestion (src/src/ingestion/ingestion.py), *)
(* as a state machine.                                                     *)
(*                                                                         *)
(* A cell is a tagged record: [t |-> "str", v |-> "DE"],                   *)
(* [t |-> "num", v |-> 30], [t |-> "datetime", v |-> <<y,m,d,H,M,S>>] or   *)
(* the missing value NA (NaN / None / pd.NA / NaT, which pandas' isna,     *)
(* isin, fillna, duplicated and comparisons treat alike).                  *)
(* A DataFrame is [columns, dtypes, rows]; a row is [idx, v] with idx the  *)
(* pandas index label (the RangeIndex position given by read_csv) and v    *)
(* the function column -> cell.                                            *)
(***************************************************************************)
EXTENDS Integers, Sequences, FiniteSets, TLC

VARIABLES
  dfs,           \* DataCleaner.dfs: dataset name -> DataFrame
  cleaning_log,  \* DataCleaner.cleaning_log: sequence of audit entries
  files,         \* the clean data sink: file name -> DataFrame written by save_df
  call,          \* the most recent engine call: operation, arguments, outcome, return value
  old_dfs,       \* dfs as it was when the most recent call was made
  old_log,       \* cleaning_log as it was when the most recent call was made
  old_files,     \* files as it was when the most recent call was made
  pc             \* the statement of the __main__ script to run next (1 for the
                 \* first call after construction), or Aborted

vars == <<dfs, cleaning_log, files, call, old_dfs, old_log, old_files, pc>>

(***************************************************************************)
(* Bounds of the model.                                                    *)
(***************************************************************************)
\* rows of the raw dataset that an initial state varies
MaxRows == 3
\* audit entries after which the run makes no further call
MaxLog == 2

(***************************************************************************)
(* Cells.                                                                  *)
(***************************************************************************)
NA == [t |-> "na", v |-> "NA"]
Str(s) == [t |-> "str", v |-> s]
Num(n) == [t |-> "num", v |-> n]
Datetime(y, m, d, H, M, S) == [t |-> "datetime", v |-> <<y, m, d, H, M, S>>]

isna(x) == x.t = "na"

Range(f) == {f[i] : i \in DOMAIN f}

(***************************************************************************)
(* Date strings: written by the raw data generator with strftime, read     *)
(* back by pd.to_datetime(format="mixed", errors="coerce").                *)
(***************************************************************************)
Digit(c) ==
  CASE c = "0" -> 0 [] c = "1" -> 1 [] c = "2" -> 2 [] c = "3" -> 3 [] c = "4" -> 4
    [] c = "5" -> 5 [] c = "6" -> 6 [] c = "7" -> 7 [] c = "8" -> 8 [] c = "9" -> 9
    [] OTHER -> -1

DigitChar(n) ==
  CASE n = 0 -> "0" [] n = 1 -> "1" [] n = 2 -> "2" [] n = 3 -> "3" [] n = 4 -> "4"
    [] n = 5 -> "5" [] n = 6 -> "6" [] n = 7 -> "7" [] n = 8 -> "8" [] n = 9 -> "9"

Char(s, i) == SubSeq(s, i, i)

IsDigits(s) == \A i \in 1..Len(s) : Digit(Char(s, i)) >= 0

RECURSIVE ParseInt(_)
ParseInt(s) ==
  IF Len(s) = 0 THEN 0
  ELSE ParseInt(SubSeq(s, 1, Len(s) - 1)) * 10 + Digit(Char(s, Len(s)))

RECURSIVE ZeroPad(_, _)
\* n in decimal, zero-padded to `width` digits (strftime's %Y, %m, %d, %H, %M, %S)
ZeroPad(n, width) ==
  IF width = 0 THEN "" ELSE ZeroPad(n \div 10, width - 1) \o DigitChar(n % 10)

\* datetime.strftime for the four formats the generator uses; dt = <<y,m,d,H,M,S>>
strftime(dt, format) ==
  CASE format = "%Y-%m-%d" ->
         ZeroPad(dt[1], 4) \o "-" \o ZeroPad(dt[2], 2) \o "-" \o ZeroPad(dt[3], 2)
    [] format = "%d/%m/%Y" ->
         ZeroPad(dt[3], 2) \o "/" \o ZeroPad(dt[2], 2) \o "/" \o ZeroPad(dt[1], 4)
    [] format = "%Y-%m-%d %H:%M:%S" ->
         ZeroPad(dt[1], 4) \o "-" \o ZeroPad(dt[2], 2) \o "-" \o ZeroPad(dt[3], 2) \o " "
           \o ZeroPad(dt[4], 2) \o ":" \o ZeroPad(dt[5], 2) \o ":" \o ZeroPad(dt[6], 2)
    [] format = "%d/%m/%Y %H:%M" ->
         ZeroPad(dt[3], 2) \o "/" \o ZeroPad(dt[2], 2) \o "/" \o ZeroPad(dt[1], 4) \o " "
           \o ZeroPad(dt[4], 2) \o ":" \o ZeroPad(dt[5], 2)

IsLeap(y) == (y % 4 = 0 /\ y % 100 # 0) \/ y % 400 = 0

DaysInMonth(y, m) ==
  IF m = 2 THEN (IF IsLeap(y) THEN 29 ELSE 28)
  ELSE IF m \in {4, 6, 9, 11} THEN 30 ELSE 31

ValidDatetime(dt) ==
  /\ dt[2] \in 1..12
  /\ dt[3] \in 1..DaysInMonth(dt[1], dt[2])
  /\ dt[4] \in 0..23 /\ dt[5] \in 0..59 /\ dt[6] \in 0..59

\* the time of day after the 10-character date part: none, " HH:MM" or " HH:MM:SS";
\* <<-1,-1,-1>> when it is none of these
ParseTimePart(s) ==
  LET n == Len(s)
      two(i) == SubSeq(s, i, i + 1)
  IN  IF n = 10 THEN <<0, 0, 0>>
      ELSE IF /\ n \in {16, 19} /\ Char(s, 11) = " " /\ Char(s, 14) = ":"
              /\ IsDigits(two(12)) /\ IsDigits(two(15))
              /\ (n = 19 => Char(s, 17) = ":" /\ IsDigits(two(18)))
           THEN <<ParseInt(two(12)), ParseInt(two(15)),
                  IF n = 19 THEN ParseInt(two(18)) ELSE 0>>
           ELSE <<-1, -1, -1>>

\* One element under format="mixed": each string is parsed on its own, with
\* dayfirst=False.  A year-first date is read year, month, day.  A date
\* NN/NN/YYYY is read MONTH first; only when the first number cannot be a month
\* (it is above 12) is it taken as the day.  What cannot be read is NaT.
parse_mixed(s) ==
  LET n == Len(s)
      f(i, j) == SubSeq(s, i, j)
      tm == ParseTimePart(s)
      yearFirst == /\ n >= 10 /\ IsDigits(f(1, 4)) /\ IsDigits(f(6, 7)) /\ IsDigits(f(9, 10))
                   /\ Char(s, 5) = Char(s, 8) /\ Char(s, 5) \in {"-", "/"}
      yearLast  == /\ n >= 10 /\ IsDigits(f(1, 2)) /\ IsDigits(f(4, 5)) /\ IsDigits(f(7, 10))
                   /\ Char(s, 3) = "/" /\ Char(s, 6) = "/"
      a == ParseInt(f(1, 2))
      b == ParseInt(f(4, 5))
      dt == IF yearFirst
              THEN <<ParseInt(f(1, 4)), ParseInt(f(6, 7)), ParseInt(f(9, 10))>> \o tm
            ELSE IF a <= 12 THEN <<ParseInt(f(7, 10)), a, b>> \o tm
            ELSE <<ParseInt(f(7, 10)), b, a>> \o tm
  IN  IF (yearFirst \/ yearLast) /\ ValidDatetime(dt)
        THEN [t |-> "datetime", v |-> dt]
        ELSE NA

\* pd.to_datetime on one cell: a string is parsed, NaN and NaT stay missing, a
\* datetime stays what it is
to_datetime(x) ==
  CASE x.t = "str" -> parse_mixed(x.v)
    [] x.t = "na" -> NA
    [] x.t = "datetime" -> x

(***************************************************************************)
(* The schema registry (src/src/schema.py).                                *)
(***************************************************************************)
ALLOWED_COUNTRIES == {"DE", "FR", "ES", "IT", "NL"}
ALLOWED_GENDERS == {"M", "F", "X"}
ALLOWED_PLANS == {"basic", "premium", "gold"}
ALLOWED_CHANNELS == {"email", "phone", "chat", "whatsapp"}
ALLOWED_ISSUE_TYPES == {"billing", "technical", "general"}

\* pandera's Column(dtype, nullable, unique, checks); check is "none", "ge0"
\* (Check.ge(0)) or "isin" (Check.isin(allowed))
Column(name, dtype, nullable, unique, check, allowed) ==
  [name |-> name, dtype |-> dtype, nullable |-> nullable, unique |-> unique,
   check |-> check, allowed |-> allowed]

customers_schema ==
  [strict |-> TRUE,
   columns |-> <<
     Column("customer_id", "str", FALSE, TRUE, "none", {}),
     Column("signup_date", "DateTime", FALSE, FALSE, "none", {}),
     Column("country", "str", TRUE, FALSE, "isin", ALLOWED_COUNTRIES),
     Column("age", "int", TRUE, FALSE, "ge0", {}),
     Column("gender", "str", TRUE, FALSE, "isin", ALLOWED_GENDERS),
     Column("plan_type", "str", TRUE, FALSE, "isin", ALLOWED_PLANS),
     Column("monthly_fee", "float", FALSE, FALSE, "ge0", {}) >>]

transactions_schema ==
  [strict |-> TRUE,
   columns |-> <<
     Column("customer_id", "str", FALSE, FALSE, "none", {}),
     Column("date", "DateTime", FALSE, FALSE, "none", {}),
     Column("call_minutes", "float", TRUE, FALSE, "ge0", {}),
     Column("data_usage_gb", "float", TRUE, FALSE, "ge0", {}),
     Column("sms_count", "int", TRUE, FALSE, "ge0", {}),
     Column("amount_paid", "float", TRUE, FALSE, "ge0", {}) >>]

support_schema ==
  [strict |-> TRUE,
   columns |-> <<
     Column("ticket_id", "str", FALSE, TRUE, "none", {}),
     Column("customer_id", "str", TRUE, FALSE, "none", {}),
     Column("timestamp", "DateTime", FALSE, FALSE, "none", {}),
     Column("channel", "str", TRUE, FALSE, "isin", ALLOWED_CHANNELS),
     Column("issue_type", "str", TRUE, FALSE, "isin", ALLOWED_ISSUE_TYPES),
     Column("resolution_time_min", "int", TRUE, FALSE, "ge0", {}),
     Column("was_resolved", "int", TRUE, FALSE, "none", {}) >>]

\* the schema the driver validates each dataset against
SchemaOf(df_name) ==
  CASE df_name = "customers" -> customers_schema
    [] df_name = "transactions" -> transactions_schema
    [] df_name = "support_interactions" -> support_schema

SchemaColumns(schema) == {schema.columns[i].name : i \in DOMAIN schema.columns}

(***************************************************************************)
(* DataFrames and the pandas operations the engine calls.                  *)
(***************************************************************************)
ColumnSet(df) == Range(df.columns)

\* the cells of one column, in row order
Series(df, column) == [i \in DOMAIN df.rows |-> df.rows[i].v[column]]

RECURSIVE TakeFrom(_, _, _)
\* the rows of `rows` from position i on whose position is in `positions`
TakeFrom(rows, positions, i) ==
  IF i > Len(rows) THEN <<>>
  ELSE (IF i \in positions THEN <<rows[i]>> ELSE <<>>) \o TakeFrom(rows, positions, i + 1)

\* boolean-mask selection df[mask]: the rows at the given positions, order,
\* index labels and contents kept
Take(rows, positions) == TakeFrom(rows, positions, 1)

\* pd.read_csv's dtype for a column: object for an empty column or one holding
\* text, float64 for numbers written with a decimal point or with gaps (and for
\* a column of gaps only), int64 for whole numbers without gaps
InferDtype(cells, decimal) ==
  IF Len(cells) = 0 THEN "object"
  ELSE IF \A i \in DOMAIN cells : cells[i].t \in {"num", "na"}
    THEN (IF decimal \/ \E i \in DOMAIN cells : isna(cells[i]) THEN "float64" ELSE "int64")
  ELSE "object"

\* data_reader: pd.read_csv of one raw file, given as its header, the columns
\* whose numbers are written with a decimal point, and its records
data_reader(file) ==
  LET cols == Range(file.columns)
  IN  [columns |-> file.columns,
       dtypes |-> [c \in cols |->
                    InferDtype([i \in DOMAIN file.records |-> file.records[i][c]],
                               c \in file.decimal)],
       rows |-> [i \in DOMAIN file.records |-> [idx |-> i - 1, v |-> file.records[i]]]]

\* load_all_data: one DataFrame per dataset name
load_all_data(raw) == [name \in DOMAIN raw |-> data_reader(raw[name])]

RECURSIVE IntToStr(_)
\* str(n) of a count, as an f-string writes it
IntToStr(n) == IF n < 10 THEN DigitChar(n) ELSE IntToStr(n \div 10) \o DigitChar(n % 10)

\* drop_duplicates that stops after the first row it removes
DataFrame_drop_duplicates_one_per_call(df, subset, keep) ==
  LET key(i) == [k \in DOMAIN subset |-> df.rows[i].v[subset[k]]]
      n == Len(df.rows)
      duplicated(i) ==
        CASE keep = "first" -> \E j \in 1..(i - 1) : key(j) = key(i)
          [] keep = "last"  -> \E j \in (i + 1)..n : key(j) = key(i)
          [] keep = "False" -> \E j \in 1..n : j # i /\ key(j) = key(i)
      dups == {i \in 1..n : duplicated(i)}
      gone == {i \in dups : \A j \in dups : i <= j}
  IN  [df EXCEPT !.rows = Take(df.rows, (1..n) \ gone)]

\* drop_duplicates that ignores keep and always keeps the first row of a key
DataFrame_drop_duplicates_ignores_keep(df, subset, keep) ==
  LET key(i) == [k \in DOMAIN subset |-> df.rows[i].v[subset[k]]]
      n == Len(df.rows)
  IN  [df EXCEPT !.rows = Take(df.rows, {i \in 1..n : ~\E j \in 1..(i - 1) : key(j) = key(i)})]

\* DataFrame.drop_duplicates(subset, keep): row i goes when another row with the
\* same values on `subset` comes before it (keep "first"), after it ("last") or
\* anywhere ("False", Python's False); missing values compare equal to each other
DataFrame_drop_duplicates(df, subset, keep) ==
  LET key(i) == [k \in DOMAIN subset |-> df.rows[i].v[subset[k]]]
      n == Len(df.rows)
      duplicated(i) ==
        CASE keep = "first" -> \E j \in 1..(i - 1) : key(j) = key(i)
          [] keep = "last"  -> \E j \in (i + 1)..n : key(j) = key(i)
          [] keep = "False" -> \E j \in 1..n : j # i /\ key(j) = key(i)
  IN  [df EXCEPT !.rows = Take(df.rows, {i \in 1..n : ~duplicated(i)})]

\* df[column] = pd.to_datetime(df[column], format="mixed", errors="coerce")
DataFrame_to_datetime(df, column) ==
  [df EXCEPT !.dtypes[column] = "datetime64[ns]",
             !.rows = [i \in DOMAIN df.rows |->
                        [df.rows[i] EXCEPT !.v[column] = to_datetime(df.rows[i].v[column])]]]

\* Series.isin(allowed_list) on one cell
isin(x, allowed) == x.t = "str" /\ x.v \in allowed

\* (~mask).sum() for mask = df[column].isin(allowed)
invalid_count(df, column, allowed) ==
  Cardinality({i \in DOMAIN df.rows : ~isin(df.rows[i].v[column], allowed)})

\* df.loc[~mask, column] = pd.NA
DataFrame_mask_invalid(df, column, allowed) ==
  [df EXCEPT !.rows = [i \in DOMAIN df.rows |->
     IF isin(df.rows[i].v[column], allowed) THEN df.rows[i]
     ELSE [df.rows[i] EXCEPT !.v[column] = NA]]]

\* Series.fillna(fill_na)
DataFrame_fillna(df, column, fill_na) ==
  [df EXCEPT !.rows = [i \in DOMAIN df.rows |->
     IF isna(df.rows[i].v[column]) THEN [df.rows[i] EXCEPT !.v[column] = fill_na]
     ELSE df.rows[i]]]

\* Series.convert_dtypes(int): the argument lands on infer_objects, so this is
\* convert_dtypes() with its defaults: the column takes pandas' nullable dtype
\* for what it holds (whole numbers -> Int64, text -> string) and every cell,
\* missing ones included, keeps its value
DataFrame_convert_dtypes(df, column) ==
  LET cells == Series(df, column)
      present == {cells[i] : i \in {j \in DOMAIN cells : ~isna(cells[j])}}
      dt == df.dtypes[column]
      new == CASE dt \in {"int64", "float64", "Int64"} -> "Int64"
               [] dt = "object" /\ present # {} /\ \A x \in present : x.t = "str" -> "string"
               [] dt = "object" /\ present # {} /\ \A x \in present : x.t = "num" -> "Int64"
               [] OTHER -> dt
  IN  [df EXCEPT !.dtypes[column] = new]

\* the query without its  not : the rows the condition matches are the ones kept
DataFrame_query_matching(df, condition) ==
  [df EXCEPT !.rows =
     Take(df.rows, {i \in DOMAIN df.rows : df.rows[i].v[condition.column] = Str(condition.value)})]

\* df.query(f"not ({condition})") for a condition  column == 'value'
DataFrame_query_not(df, condition) ==
  [df EXCEPT !.rows =
     Take(df.rows, {i \in DOMAIN df.rows : ~(df.rows[i].v[condition.column] = Str(condition.value))})]

\* df.select_dtypes(include='number').columns
numeric_columns(df) ==
  {c \in ColumnSet(df) : df.dtypes[c] \in {"int64", "float64", "Int64", "Float64"}}

\* the loop filtering the DataFrame it started with on every pass, so that only
\* the last column's filter is left
DataFrame_keep_non_negative_last_only(df, columns) ==
  LET last == {c \in columns : \A d \in columns : \E i \in DOMAIN df.columns :
                 df.columns[i] = c /\ \A j \in DOMAIN df.columns : df.columns[j] = d => j <= i}
  IN  [df EXCEPT !.rows =
         Take(df.rows, {i \in DOMAIN df.rows :
                          \A c \in last : df.rows[i].v[c].t = "num" /\ df.rows[i].v[c].v >= 0})]

\* the loop  for col in numeric_columns: df = df[df[col] >= 0]  ; a comparison
\* with a missing value is False, so the row goes
DataFrame_keep_non_negative(df, columns) ==
  [df EXCEPT !.rows =
     Take(df.rows, {i \in DOMAIN df.rows :
                      \A c \in columns : df.rows[i].v[c].t = "num" /\ df.rows[i].v[c].v >= 0})]

\* DataFrame.to_csv(index=False): the header and the cells, without the index
to_csv(df) ==
  [columns |-> df.columns, records |-> [i \in DOMAIN df.rows |-> df.rows[i].v]]

(***************************************************************************)
(* pandera's DataFrameSchema.validate (lazy=False): the message of the     *)
(* first SchemaError, or "" when the DataFrame satisfies the schema.       *)
(***************************************************************************)
\* whether a pandas dtype is the one a Column declares
dtype_matches(declared, actual) ==
  CASE declared = "str" -> actual = "object"
    [] declared = "int" -> actual = "int64"
    [] declared = "float" -> actual = "float64"
    [] declared = "DateTime" -> actual = "datetime64[ns]"

\* a Check on one non-missing cell
check_passes(col, x) ==
  CASE col.check = "none" -> TRUE
    [] col.check = "ge0" -> x.t = "num" /\ x.v >= 0
    [] col.check = "isin" -> isin(x, col.allowed)

\* one Column against the DataFrame: nullable, unique, dtype, then its checks
column_error(df, col) ==
  LET cells == Series(df, col.name)
  IN  IF ~col.nullable /\ \E i \in DOMAIN cells : isna(cells[i])
        THEN "non-nullable series '" \o col.name \o "' contains null values"
      ELSE IF col.unique /\ \E i, j \in DOMAIN cells : i # j /\ cells[i] = cells[j]
        THEN "series '" \o col.name \o "' contains duplicate values"
      ELSE IF ~dtype_matches(col.dtype, df.dtypes[col.name])
        THEN "expected series '" \o col.name \o "' to have type " \o col.dtype
               \o ", got " \o df.dtypes[col.name]
      ELSE IF \E i \in DOMAIN cells : ~isna(cells[i]) /\ ~check_passes(col, cells[i])
        THEN "Column '" \o col.name \o "' failed element-wise validator"
      ELSE ""

\* validation that does not close the column set (strict=False)
schema_validate_not_strict(df, schema) ==
  LET absent == {i \in DOMAIN schema.columns : schema.columns[i].name \notin ColumnSet(df)}
      failing == {i \in DOMAIN schema.columns : column_error(df, schema.columns[i]) # ""}
      first(S) == CHOOSE i \in S : \A j \in S : i <= j
  IN  IF absent # {}
        THEN "column '" \o schema.columns[first(absent)].name \o "' not in dataframe"
      ELSE IF failing # {}
        THEN column_error(df, schema.columns[first(failing)])
      ELSE ""

schema_validate(df, schema) ==
  LET declared == SchemaColumns(schema)
      extra == {i \in DOMAIN df.columns : df.columns[i] \notin declared}
      absent == {i \in DOMAIN schema.columns : schema.columns[i].name \notin ColumnSet(df)}
      failing == {i \in DOMAIN schema.columns : column_error(df, schema.columns[i]) # ""}
      first(S) == CHOOSE i \in S : \A j \in S : i <= j
  IN  IF schema.strict /\ extra # {}
        THEN "column '" \o df.columns[first(extra)] \o "' not in DataFrameSchema"
      ELSE IF absent # {}
        THEN "column '" \o schema.columns[first(absent)].name \o "' not in dataframe"
      ELSE IF failing # {}
        THEN column_error(df, schema.columns[first(failing)])
      ELSE ""

(***************************************************************************)
(* The engine's operations.  Each gives the outcome of one call made with  *)
(* datasets D, audit log L and sink F: the exception raised ("" when the   *)
(* call returns), the datasets, log and sink it leaves, its return value,  *)
(* and for get_cleaning_summary the table returned.                        *)
(***************************************************************************)
Returns(D, L, F, ret) ==
  [raised |-> "", dfs |-> D, log |-> L, files |-> F, ret |-> ret, summary |-> <<>>]

Raises(exception, D, L, F) ==
  [raised |-> exception, dfs |-> D, log |-> L, files |-> F, ret |-> "", summary |-> <<>>]

drop_duplicates(D, L, F, df_name, subset, keep) ==
  IF df_name \notin DOMAIN D THEN Raises("KeyError", D, L, F)
  ELSE IF \E k \in DOMAIN subset : subset[k] \notin ColumnSet(D[df_name])
    \* DataFrame.drop_duplicates raises before line 41 assigns
    THEN Raises("KeyError", D, L, F)
  ELSE LET initial_rows == Len(D[df_name].rows)
           new == DataFrame_drop_duplicates(D[df_name], subset, keep)
           removed_rows == initial_rows - Len(new.rows)
       IN  Returns([D EXCEPT ![df_name] = new],
                   Append(L, "Removed " \o IntToStr(removed_rows) \o " duplicates from " \o df_name),
                   F, "self")

convert_date(D, L, F, df_name, column) ==
  IF df_name \notin DOMAIN D THEN Raises("KeyError", D, L, F)
  ELSE IF column \notin ColumnSet(D[df_name]) THEN Raises("KeyError", D, L, F)
  ELSE Returns([D EXCEPT ![df_name] = DataFrame_to_datetime(D[df_name], column)],
               Append(L, "Converted " \o column \o " to datetime in " \o df_name),
               F, "self")

RECURSIVE filter_loop_stops_at_absent(_, _, _, _)
\* the loop with  return  where the code has  continue
filter_loop_stops_at_absent(df, L, df_name, items) ==
  IF items = <<>> THEN <<df, L>>
  ELSE LET column_name == Head(items).column
           allowed_list == Head(items).allowed
       IN  IF column_name \notin ColumnSet(df)
             THEN <<df, L>>
           ELSE filter_loop_stops_at_absent(
                  DataFrame_mask_invalid(df, column_name, allowed_list),
                  Append(L, "Filtered " \o IntToStr(invalid_count(df, column_name, allowed_list))
                              \o " invalid values from " \o column_name \o " in " \o df_name),
                  df_name, Tail(items))

RECURSIVE filter_loop(_, _, _, _)
\* the loop of filter_categorical over column_to_allowed_list.items(), from
\* item k on: <<the DataFrame, the log>> it leaves
filter_loop(df, L, df_name, items) ==
  IF items = <<>> THEN <<df, L>>
  ELSE LET column_name == Head(items).column
           allowed_list == Head(items).allowed
       IN  IF column_name \notin ColumnSet(df)
             THEN filter_loop(df, L, df_name, Tail(items))
           ELSE filter_loop(
                  DataFrame_mask_invalid(df, column_name, allowed_list),
                  Append(L, "Filtered " \o IntToStr(invalid_count(df, column_name, allowed_list))
                              \o " invalid values from " \o column_name \o " in " \o df_name),
                  df_name, Tail(items))

RECURSIVE mask_all(_, _)
\* every listed column the DataFrame has, filtered
mask_all(df, items) ==
  IF items = <<>> THEN df
  ELSE IF Head(items).column \notin ColumnSet(df) THEN mask_all(df, Tail(items))
  ELSE mask_all(DataFrame_mask_invalid(df, Head(items).column, Head(items).allowed), Tail(items))

\* filter_categorical with the log entry written once, after the loop
filter_categorical_one_entry(D, L, F, df_name, column_to_allowed_list) ==
  IF df_name \notin DOMAIN D THEN Raises("KeyError", D, L, F)
  ELSE Returns([D EXCEPT ![df_name] = mask_all(D[df_name], column_to_allowed_list)],
               Append(L, "Filtered invalid values in " \o df_name), F, "self")

filter_categorical(D, L, F, df_name, column_to_allowed_list) ==
  IF df_name \notin DOMAIN D THEN Raises("KeyError", D, L, F)
  ELSE LET out == filter_loop(D[df_name], L, df_name, column_to_allowed_list)
       IN  Returns([D EXCEPT ![df_name] = out[1]], out[2], F, "self")

\* convert_to_int testing  if fill_na:  where the code tests  is not None
convert_to_int_truthy_fill(D, L, F, df_name, column, fill_na) ==
  IF df_name \notin DOMAIN D THEN Raises("KeyError", D, L, F)
  ELSE IF column \notin ColumnSet(D[df_name]) THEN Raises("KeyError", D, L, F)
  ELSE LET filled == IF ~isna(fill_na) /\ fill_na.v # 0
                       THEN DataFrame_fillna(D[df_name], column, fill_na)
                     ELSE D[df_name]
       IN  Returns([D EXCEPT ![df_name] = DataFrame_convert_dtypes(filled, column)],
                   Append(L, "Converted " \o column \o " to integer in " \o df_name),
                   F, "self")

\* fill_na is a number cell, or NA for Python's None
convert_to_int(D, L, F, df_name, column, fill_na) ==
  IF df_name \notin DOMAIN D THEN Raises("KeyError", D, L, F)
  ELSE IF column \notin ColumnSet(D[df_name])
    \* df[column] raises at line 108 or 110, before anything is assigned
    THEN Raises("KeyError", D, L, F)
  ELSE LET filled == IF ~isna(fill_na) THEN DataFrame_fillna(D[df_name], column, fill_na)
                     ELSE D[df_name]
       IN  Returns([D EXCEPT ![df_name] = DataFrame_convert_dtypes(filled, column)],
                   Append(L, "Converted " \o column \o " to integer in " \o df_name),
                   F, "self")

\* condition = [expr, column, value]: the text  column == 'value'  and its parts
remove_rows(D, L, F, df_name, condition) ==
  IF df_name \notin DOMAIN D THEN Raises("KeyError", D, L, F)
  ELSE IF condition.column \notin ColumnSet(D[df_name])
    \* DataFrame.query cannot resolve the name
    THEN Raises("UndefinedVariableError", D, L, F)
  ELSE LET initial_count == Len(D[df_name].rows)
           new == DataFrame_query_not(D[df_name], condition)
           removed_count == initial_count - Len(new.rows)
       IN  Returns([D EXCEPT ![df_name] = new],
                   Append(L, "Removed " \o IntToStr(removed_count) \o " rows from " \o df_name
                               \o " where " \o condition.expr),
                   F, "self")

\* exclude_columns is a set of column names; the empty set stands for None and []
remove_negatives(D, L, F, df_name, exclude_columns) ==
  IF df_name \notin DOMAIN D THEN Raises("KeyError", D, L, F)
  ELSE LET columns == IF exclude_columns # {}
                        THEN numeric_columns(D[df_name]) \ exclude_columns
                        ELSE numeric_columns(D[df_name])
           initial_count == Len(D[df_name].rows)
           new == DataFrame_keep_non_negative(D[df_name], columns)
           removed_count == initial_count - Len(new.rows)
       IN  Returns([D EXCEPT ![df_name] = new],
                   Append(L, "Removed " \o IntToStr(removed_count)
                               \o " rows with negative values from " \o df_name),
                   F, "self")

\* validate_df without its try block: a SchemaError reaches the caller
validate_df_no_try(D, L, F, df_name, schema) ==
  IF df_name \notin DOMAIN D THEN Raises("KeyError", D, L, F)
  ELSE IF schema_validate(D[df_name], schema) # "" THEN Raises("SchemaError", D, L, F)
  ELSE Returns(D, Append(L, "Validation passed for " \o df_name), F, "True")

\* validate_df that logs the failure and raises it again
validate_df_reraises(D, L, F, df_name, schema) ==
  LET e == IF df_name \notin DOMAIN D THEN "'" \o df_name \o "'"
           ELSE schema_validate(D[df_name], schema)
  IN  IF df_name \in DOMAIN D /\ e = ""
        THEN Returns(D, Append(L, "Validation passed for " \o df_name), F, "True")
      ELSE Raises("SchemaError", D, Append(L, "Validation failed for " \o df_name \o ": " \o e), F)

\* the try block holds self.dfs[df_name] too: the KeyError of an unknown name is
\* caught by  except Exception  like a SchemaError
validate_df(D, L, F, df_name, schema) ==
  LET e == IF df_name \notin DOMAIN D THEN "'" \o df_name \o "'"
           ELSE schema_validate(D[df_name], schema)
  IN  IF df_name \in DOMAIN D /\ e = ""
        THEN Returns(D, Append(L, "Validation passed for " \o df_name), F, "True")
      ELSE Returns(D, Append(L, "Validation failed for " \o df_name \o ": " \o e), F, "False")

get_cleaning_summary(D, L, F) ==
  [Returns(D, L, F, "DataFrame") EXCEPT
     !.summary = [i \in DOMAIN L |-> [operation |-> L[i], timestamp |-> "now"]]]

\* filename "" stands for None: (filename or df_name)
save_df(D, L, F, df_name, filename) ==
  IF df_name \notin DOMAIN D THEN Raises("KeyError", D, L, F)
  ELSE LET output_path == "../data/2_clean/"
                            \o (IF filename # "" THEN filename ELSE df_name) \o ".csv"
       IN  Returns(D, L,
                   [p \in DOMAIN F \cup {output_path} |->
                      IF p = output_path THEN to_csv(D[df_name]) ELSE F[p]],
                   "None")

(***************************************************************************)
(* Raw files.  The records below are the kinds of record                   *)
(* src/data/1_raw/data_generation.py writes (clean ones, repeated keys,    *)
(* both date formats, placeholder categories, gaps, negative amounts, the  *)
(* orphan customer id) and the scenarios of the specification.  Numbers    *)
(* are whole numbers.                                                      *)
(***************************************************************************)
DatasetNames == {"customers", "support_interactions", "transactions"}

RawColumns(name) ==
  CASE name = "customers" ->
         <<"customer_id", "signup_date", "country", "age", "gender", "plan_type", "monthly_fee">>
    [] name = "transactions" ->
         <<"customer_id", "date", "call_minutes", "data_usage_gb", "sms_count", "amount_paid">>
    [] name = "support_interactions" ->
         <<"ticket_id", "customer_id", "timestamp", "channel", "issue_type",
           "resolution_time_min", "was_resolved">>

\* the columns the generator writes as floats
RawDecimal(name) ==
  CASE name = "customers" -> {"monthly_fee"}
    [] name = "transactions" -> {"call_minutes", "data_usage_gb", "amount_paid"}
    [] name = "support_interactions" -> {}

Date(y, m, d) == <<y, m, d, 0, 0, 0>>

Catalog(name) ==
  CASE name = "customers" -> <<
         [customer_id |-> Str("C100000"), signup_date |-> Str(strftime(Date(2021, 5, 1), "%Y-%m-%d")),
          country |-> Str("DE"), age |-> Num(30), gender |-> Str("M"),
          plan_type |-> Str("basic"), monthly_fee |-> Num(20)],
         [customer_id |-> Str("C100000"), signup_date |-> Str(strftime(Date(2021, 5, 1), "%d/%m/%Y")),
          country |-> Str("DE"), age |-> Num(30), gender |-> Str("M"),
          plan_type |-> Str("basic"), monthly_fee |-> Num(20)],
         [customer_id |-> Str("C100001"), signup_date |-> Str(strftime(Date(2020, 12, 25), "%d/%m/%Y")),
          country |-> Str("??"), age |-> NA, gender |-> Str("Unknown"),
          plan_type |-> NA, monthly_fee |-> Num(35)],
         [customer_id |-> Str("C100000"), signup_date |-> Str("unknown"),
          country |-> Str("FR"), age |-> Num(41), gender |-> Str("F"),
          plan_type |-> Str("?"), monthly_fee |-> Num(5)] >>
    [] name = "transactions" -> <<
         [customer_id |-> Str("C100000"), date |-> Str(strftime(Date(2021, 1, 1), "%Y-%m-%d")),
          call_minutes |-> Num(300), data_usage_gb |-> Num(5), sms_count |-> Num(50),
          amount_paid |-> Num(60)],
         [customer_id |-> Str("C100001"), date |-> Str(strftime(Date(2021, 1, 31), "%Y-%m-%d")),
          call_minutes |-> Num(-3), data_usage_gb |-> Num(-1), sms_count |-> Num(40),
          amount_paid |-> Num(-5)],
         [customer_id |-> Str("C999999"), date |-> Str(strftime(Date(2021, 3, 2), "%Y-%m-%d")),
          call_minutes |-> Num(250), data_usage_gb |-> Num(4), sms_count |-> Num(0),
          amount_paid |-> NA],
         [customer_id |-> Str("C100001"), date |-> Str(strftime(Date(2021, 1, 1), "%Y-%m-%d")),
          call_minutes |-> Num(120), data_usage_gb |-> Num(-2), sms_count |-> Num(10),
          amount_paid |-> Num(30)] >>
    [] name = "support_interactions" -> <<
         [ticket_id |-> Str("T10001"), customer_id |-> Str("C100000"),
          timestamp |-> Str(strftime(<<2021, 3, 4, 10, 30, 0>>, "%Y-%m-%d %H:%M:%S")),
          channel |-> Str("email"), issue_type |-> Str("billing"),
          resolution_time_min |-> Num(45), was_resolved |-> Num(1)],
         [ticket_id |-> Str("T10001"), customer_id |-> Str("C000000"),
          timestamp |-> Str(strftime(<<2021, 3, 4, 10, 30, 0>>, "%d/%m/%Y %H:%M")),
          channel |-> Str("carrier pigeon"), issue_type |-> Str("??"),
          resolution_time_min |-> NA, was_resolved |-> Num(0)],
         [ticket_id |-> Str("T10002"), customer_id |-> NA,
          timestamp |-> Str(strftime(<<2022, 6, 17, 8, 15, 0>>, "%d/%m/%Y %H:%M")),
          channel |-> NA, issue_type |-> Str("technical"),
          resolution_time_min |-> Num(12), was_resolved |-> NA],
         [ticket_id |-> Str("T10003"), customer_id |-> Str("C100001"),
          timestamp |-> Str("2022/06/17"),
          channel |-> Str("phone"), issue_type |-> NA,
          resolution_time_min |-> Num(200), was_resolved |-> Num(1)] >>

\* A raw file of dataset `name` holding `records`.  layout "declared" has the
\* generator's columns, "extra" one more column, "missing" lacks the last one.
RawFile(name, layout, records) ==
  LET declared == RawColumns(name)
      columns == CASE layout = "declared" -> declared
                   [] layout = "extra" -> Append(declared, "churned")
                   [] layout = "missing" -> SubSeq(declared, 1, Len(declared) - 1)
  IN  [columns |-> columns,
       decimal |-> RawDecimal(name),
       records |-> [i \in DOMAIN records |->
                      [c \in Range(columns) |->
                         IF c = "churned" THEN Str("yes") ELSE records[i][c]]]]

\* the first k records of the catalog
Prefix(name, k) == SubSeq(Catalog(name), 1, k)

\* every sequence of at most MaxRows records of the catalog, repeats included
RecordSeqs(name) ==
  UNION {[1..k -> Range(Catalog(name))] : k \in 0..MaxRows}

(***************************************************************************)
(* The state machine.                                                      *)
(***************************************************************************)
\* DataCleaner.__init__ on the given raw files
Constructed(raw) ==
  /\ dfs = load_all_data(raw)
  /\ cleaning_log = <<>>
  /\ files = <<>>
  /\ call = [op |-> "__init__", df_name |-> "", args |-> <<>>, raised |-> "",
             ret |-> "", summary |-> <<>>]
  /\ old_dfs = dfs
  /\ old_log = <<>>
  /\ old_files = <<>>
  /\ pc = 1

\* the three raw files hold the same number of catalog records, in catalog order
Init ==
  \E k \in {MaxRows - 1, MaxRows} :
    Constructed([name \in DatasetNames |-> RawFile(name, "declared", Prefix(name, k))])

\* one call of the engine with outcome `out`; once the log holds MaxLog entries
\* the run only saves and reads the summary, as the driver does at its end
Step(op, df_name, args, out) ==
  /\ Len(cleaning_log) < MaxLog \/ op \in {"save_df", "get_cleaning_summary"}
  /\ dfs' = out.dfs
  /\ cleaning_log' = out.log
  /\ files' = out.files
  /\ call' = [op |-> op, df_name |-> df_name, args |-> args, raised |-> out.raised,
              ret |-> out.ret, summary |-> out.summary]
  /\ old_dfs' = dfs
  /\ old_log' = cleaning_log
  /\ old_files' = files
  /\ UNCHANGED pc

DropDuplicates(df_name, subset, keep) ==
  Step("drop_duplicates", df_name, [subset |-> subset, keep |-> keep],
       drop_duplicates(dfs, cleaning_log, files, df_name, subset, keep))

ConvertDate(df_name, column) ==
  Step("convert_date", df_name, [column |-> column],
       convert_date(dfs, cleaning_log, files, df_name, column))

FilterCategorical(df_name, column_to_allowed_list) ==
  Step("filter_categorical", df_name, [column_to_allowed_list |-> column_to_allowed_list],
       filter_categorical(dfs, cleaning_log, files, df_name, column_to_allowed_list))

ConvertToInt(df_name, column, fill_na) ==
  Step("convert_to_int", df_name, [column |-> column, fill_na |-> fill_na],
       convert_to_int(dfs, cleaning_log, files, df_name, column, fill_na))

RemoveRows(df_name, condition) ==
  Step("remove_rows", df_name, [condition |-> condition],
       remove_rows(dfs, cleaning_log, files, df_name, condition))

RemoveNegatives(df_name, exclude_columns) ==
  Step("remove_negatives", df_name, [exclude_columns |-> exclude_columns],
       remove_negatives(dfs, cleaning_log, files, df_name, exclude_columns))

ValidateDf(df_name, schema) ==
  Step("validate_df", df_name, [schema |-> schema],
       validate_df(dfs, cleaning_log, files, df_name, schema))

GetCleaningSummary ==
  Step("get_cleaning_summary", "", <<>>, get_cleaning_summary(dfs, cleaning_log, files))

SaveDf(df_name, filename) ==
  Step("save_df", df_name, [filename |-> filename],
       save_df(dfs, cleaning_log, files, df_name, filename))

(***************************************************************************)
(* The arguments the calls are made with.                                  *)
(***************************************************************************)
\* the loaded names and one that is not loaded
CallNames == DatasetNames \cup {"orders"}

CustomersFilter ==
  << [column |-> "country", allowed |-> ALLOWED_COUNTRIES],
     [column |-> "plan_type", allowed |-> ALLOWED_PLANS],
     [column |-> "gender", allowed |-> ALLOWED_GENDERS] >>

SupportFilter ==
  << [column |-> "channel", allowed |-> ALLOWED_CHANNELS],
     [column |-> "issue_type", allowed |-> ALLOWED_ISSUE_TYPES] >>

OrphanCondition ==
  [expr |-> "customer_id == 'C999999'", column |-> "customer_id", value |-> "C999999"]

Next ==
  \/ \E c \in { <<"customers", <<"customer_id">>, "first">>,
                <<"support_interactions", <<"ticket_id">>, "first">>,
                <<"customers", <<"ticket_id">>, "first">>,
                <<"orders", <<"customer_id">>, "first">> } :
       DropDuplicates(c[1], c[2], c[3])
  \/ \E c \in { <<"customers", "signup_date">>, <<"transactions", "date">>,
                <<"support_interactions", "timestamp">>,
                <<"customers", "timestamp">>, <<"orders", "date">> } :
       ConvertDate(c[1], c[2])
  \/ \E c \in { <<"customers", CustomersFilter>>, <<"support_interactions", SupportFilter>>,
                <<"transactions", SupportFilter>>, <<"orders", CustomersFilter>> } :
       FilterCategorical(c[1], c[2])
  \/ \E c \in { <<"customers", "age", NA>>, <<"support_interactions", "resolution_time_min", Num(0)>>,
                <<"customers", "was_resolved", NA>>, <<"orders", "age", NA>> } :
       ConvertToInt(c[1], c[2], c[3])
  \/ \E df_name \in {"transactions", "orders"} : RemoveRows(df_name, OrphanCondition)
  \/ \E df_name \in {"transactions", "support_interactions", "orders"} :
       RemoveNegatives(df_name, {})
  \/ \E df_name \in DatasetNames : ValidateDf(df_name, SchemaOf(df_name))
  \/ ValidateDf("orders", customers_schema)
  \/ GetCleaningSummary
  \/ \E df_name \in {"customers", "orders"} : SaveDf(df_name, "customers_clean")

Spec == Init /\ [][Next]_vars

\* The raw file of dataset `name` is any sequence of at most MaxRows catalog
\* records in one of the given layouts; the other two files hold the first
\* catalog record.
InitWide(name, layouts) ==
  \E records \in RecordSeqs(name), layout \in layouts :
    Constructed([n \in DatasetNames |->
                   IF n = name THEN RawFile(n, layout, records)
                   ELSE RawFile(n, "declared", Prefix(n, 1))])

\* drop_duplicates on every raw customers file and every raw support file:
\* single and composite keys, a key with missing values, the three keep
\* policies, and a key column the file lacks
InitDedup == InitWide("customers", {"declared"}) \/ InitWide("support_interactions", {"declared"})

NextDedup ==
  \/ \E subset \in {<<"customer_id">>, <<"customer_id", "country">>, <<"ticket_id">>},
        keep \in {"first", "last", "False"} :
       DropDuplicates("customers", subset, keep)
  \/ \E subset \in {<<"ticket_id">>, <<"channel">>}, keep \in {"first", "last", "False"} :
       DropDuplicates("support_interactions", subset, keep)

SpecDedup == InitDedup /\ [][NextDedup]_vars

\* filter_categorical on every raw customers file and every raw support file:
\* the driver's whitelists, and lists that name a column the file lacks before,
\* between and after columns it has
InitFilter == InitWide("customers", {"declared"}) \/ InitWide("support_interactions", {"declared"})

AbsentItem == [column |-> "segment", allowed |-> {"retail"}]

NextFilter ==
  \/ \E items \in { CustomersFilter,
                    <<AbsentItem, CustomersFilter[1]>>,
                    <<CustomersFilter[3], AbsentItem, CustomersFilter[2]>>,
                    <<AbsentItem>> } :
       FilterCategorical("customers", items)
  \/ \E items \in { SupportFilter, <<SupportFilter[2], AbsentItem>>, <<AbsentItem, SupportFilter[1]>> } :
       FilterCategorical("support_interactions", items)

SpecFilter == InitFilter /\ [][NextFilter]_vars

\* remove_negatives on every raw transactions file and every raw customers file,
\* with no exclusion and with exclusions of numeric and other columns
InitNegatives == InitWide("transactions", {"declared"}) \/ InitWide("customers", {"declared"})

NextNegatives ==
  \/ \E exclude_columns \in { {}, {"amount_paid"}, {"customer_id", "data_usage_gb", "amount_paid"} } :
       RemoveNegatives("transactions", exclude_columns)
  \/ \E exclude_columns \in { {}, {"age"} } : RemoveNegatives("customers", exclude_columns)

SpecNegatives == InitNegatives /\ [][NextNegatives]_vars

\* convert_to_int on every raw customers file and every raw support file, without
\* a fill value and with the fill values 0 and 18
InitToInt == InitWide("customers", {"declared"}) \/ InitWide("support_interactions", {"declared"})

NextToInt ==
  \/ \E fill_na \in {NA, Num(0), Num(18)} : ConvertToInt("customers", "age", fill_na)
  \/ \E column \in {"resolution_time_min", "was_resolved"}, fill_na \in {NA, Num(0)} :
       ConvertToInt("support_interactions", column, fill_na)

SpecToInt == InitToInt /\ [][NextToInt]_vars

\* convert_date on every raw customers file and every raw support file
InitDate == InitWide("customers", {"declared"}) \/ InitWide("support_interactions", {"declared"})

NextDate ==
  \/ \E column \in {"signup_date", "timestamp"} : ConvertDate("customers", column)
  \/ ConvertDate("support_interactions", "timestamp")

SpecDate == InitDate /\ [][NextDate]_vars

\* validate_df on raw files and on files whose dates have been converted.  Either
\* one of the three raw files holds the first k catalog records, k up to MaxRows,
\* with the declared columns, one column more or one column less; or the
\* customers file is any sequence of catalog records with the declared columns.
InitValidate ==
  \/ \E name \in DatasetNames, layout \in {"declared", "extra", "missing"}, k \in 0..MaxRows :
       Constructed([n \in DatasetNames |->
                      IF n = name THEN RawFile(n, layout, Prefix(n, k))
                      ELSE RawFile(n, "declared", Prefix(n, 1))])
  \/ InitWide("customers", {"declared"})

NextValidate ==
  \/ \E c \in { <<"customers", "signup_date">>, <<"transactions", "date">>,
                <<"support_interactions", "timestamp">> } :
       ConvertDate(c[1], c[2])
  \/ \E df_name \in DatasetNames : ValidateDf(df_name, SchemaOf(df_name))
  \/ ValidateDf("transactions", customers_schema)

SpecValidate == InitValidate /\ [][NextValidate]_vars

(***************************************************************************)
(* The driver: the __main__ script, one statement per step.  An exception  *)
(* that reaches the script ends it.                                        *)
(***************************************************************************)
\* the calls of the script in program order, defaults filled in (keep="first",
\* fill_na=None, exclude_columns=None, filename as given)
Driver ==
  << [op |-> "drop_duplicates", df_name |-> "customers", subset |-> <<"customer_id">>, keep |-> "first"],
     [op |-> "convert_date", df_name |-> "customers", column |-> "signup_date"],
     [op |-> "filter_categorical", df_name |-> "customers", column_to_allowed_list |-> CustomersFilter],
     [op |-> "convert_to_int", df_name |-> "customers", column |-> "age", fill_na |-> NA],
     [op |-> "convert_date", df_name |-> "transactions", column |-> "date"],
     [op |-> "remove_rows", df_name |-> "transactions", condition |-> OrphanCondition],
     [op |-> "remove_negatives", df_name |-> "transactions", exclude_columns |-> {}],
     [op |-> "filter_categorical", df_name |-> "support_interactions",
      column_to_allowed_list |-> SupportFilter],
     [op |-> "remove_negatives", df_name |-> "support_interactions", exclude_columns |-> {}],
     [op |-> "drop_duplicates", df_name |-> "support_interactions", subset |-> <<"ticket_id">>,
      keep |-> "first"],
     [op |-> "convert_date", df_name |-> "support_interactions", column |-> "timestamp"],
     [op |-> "convert_to_int", df_name |-> "support_interactions", column |-> "resolution_time_min",
      fill_na |-> NA],
     [op |-> "convert_to_int", df_name |-> "support_interactions", column |-> "was_resolved",
      fill_na |-> NA],
     [op |-> "validate_df", df_name |-> "customers", schema |-> customers_schema],
     [op |-> "validate_df", df_name |-> "transactions", schema |-> transactions_schema],
     [op |-> "validate_df", df_name |-> "support_interactions", schema |-> support_schema],
     [op |-> "save_df", df_name |-> "customers", filename |-> "customers_clean"],
     [op |-> "save_df", df_name |-> "transactions", filename |-> "transactions_clean"],
     [op |-> "save_df", df_name |-> "support_interactions", filename |-> "support_interactions_clean"],
     [op |-> "get_cleaning_summary", df_name |-> ""] >>

\* pc of a script ended by an exception
Aborted == 0

\* pc of a script that ran to its end
Finished == Len(Driver) + 1

\* the outcome of statement s made with datasets D, log L and sink F
Outcome(s, D, L, F) ==
  CASE s.op = "drop_duplicates" -> drop_duplicates(D, L, F, s.df_name, s.subset, s.keep)
    [] s.op = "convert_date" -> convert_date(D, L, F, s.df_name, s.column)
    [] s.op = "filter_categorical" -> filter_categorical(D, L, F, s.df_name, s.column_to_allowed_list)
    [] s.op = "convert_to_int" -> convert_to_int(D, L, F, s.df_name, s.column, s.fill_na)
    [] s.op = "remove_rows" -> remove_rows(D, L, F, s.df_name, s.condition)
    [] s.op = "remove_negatives" -> remove_negatives(D, L, F, s.df_name, s.exclude_columns)
    [] s.op = "validate_df" -> validate_df(D, L, F, s.df_name, s.schema)
    [] s.op = "save_df" -> save_df(D, L, F, s.df_name, s.filename)
    [] s.op = "get_cleaning_summary" -> get_cleaning_summary(D, L, F)

\* the script runs its next statement; an exception ends it there
RunStatement ==
  /\ pc \in DOMAIN Driver
  /\ LET s == Driver[pc]
         out == Outcome(s, dfs, cleaning_log, files)
     IN  /\ dfs' = out.dfs
         /\ cleaning_log' = out.log
         /\ files' = out.files
         /\ call' = [op |-> s.op, df_name |-> s.df_name, args |-> s, raised |-> out.raised,
                     ret |-> out.ret, summary |-> out.summary]
         /\ pc' = IF out.raised = "" THEN pc + 1 ELSE Aborted
  /\ old_dfs' = dfs
  /\ old_log' = cleaning_log
  /\ old_files' = files

\* the script on raw files of which one is any sequence of at most MaxRows
\* catalog records with the declared columns, one column more or one column
\* less, and the other two hold the first catalog record; and on three raw
\* files that each hold the first k catalog records
InitDriver ==
  \/ \E name \in DatasetNames : InitWide(name, {"declared", "extra", "missing"})
  \/ \E k \in 0..MaxRows :
       Constructed([name \in DatasetNames |-> RawFile(name, "declared", Prefix(name, k))])

NextDriver == RunStatement

SpecDriver == InitDriver /\ [][NextDriver]_vars

\* the script on three raw files that each hold the first k catalog records,
\* one of them with the declared columns, one column more or one column less
InitDriverRun ==
  \E k \in 0..MaxRows, name \in DatasetNames, layout \in {"declared", "extra", "missing"} :
    Constructed([n \in DatasetNames |->
                   RawFile(n, IF n = name THEN layout ELSE "declared", Prefix(n, k))])

\* the interpreter runs the script on while it has a statement to run
SpecDriverRun == InitDriverRun /\ [][NextDriver]_vars /\ WF_vars(RunStatement)

(***************************************************************************)
(* What the claims speak of.                                               *)
(***************************************************************************)
Returned == call.raised = ""

\* the dataset the most recent call named, before and after the call
Before == old_dfs[call.df_name]
After == dfs[call.df_name]

IsPrefix(s, t) == Len(s) <= Len(t) /\ SubSeq(t, 1, Len(s)) = s

StartsWith(s, prefix) == Len(prefix) <= Len(s) /\ SubSeq(s, 1, Len(prefix)) = prefix

\* the entries the most recent call appended
Appended == SubSeq(cleaning_log, Len(old_log) + 1, Len(cleaning_log))

\* the most recent call is one of the operations that take a dataset name and
\* either names no loaded dataset or (convert_date, convert_to_int,
\* drop_duplicates) names a column the dataset does not have
StructuralError ==
  /\ call.op \in {"drop_duplicates", "convert_date", "filter_categorical", "convert_to_int",
                  "remove_rows", "remove_negatives", "validate_df", "save_df"}
  /\ \/ call.df_name \notin DOMAIN old_dfs
     \/ /\ call.op \in {"convert_date", "convert_to_int"}
        /\ call.args.column \notin ColumnSet(Before)
     \/ /\ call.op = "drop_duplicates"
        /\ \E k \in DOMAIN call.args.subset : call.args.subset[k] \notin ColumnSet(Before)

\* C1: every call with a structural error (a dataset name that is not loaded; for
\* convert_date, convert_to_int and drop_duplicates also a column the dataset
\* lacks) raises to the caller and leaves the datasets and the audit log as
\* they were.
C1_StructuralErrorsRaise ==
  StructuralError => /\ call.raised # ""
                     /\ dfs = old_dfs
                     /\ cleaning_log = old_log

\* The same for every operation but validate_df: this part of C1 holds.
C1_StructuralErrorsRaiseExceptValidate ==
  StructuralError /\ call.op # "validate_df" =>
    /\ call.raised # ""
    /\ dfs = old_dfs
    /\ cleaning_log = old_log

\* the listed columns of a filter_categorical call that the dataset has
ListedPresent ==
  {call.args.column_to_allowed_list[k].column : k \in DOMAIN call.args.column_to_allowed_list}
    \cap ColumnSet(Before)

\* C2: the audit log is append-only and call-ordered: no call removes, rewrites
\* or reorders an earlier entry; a call of drop_duplicates, convert_date,
\* convert_to_int, remove_rows or remove_negatives that returns appends exactly
\* one entry; a call of filter_categorical that returns appends exactly one entry
\* per listed column the dataset has; get_cleaning_summary returns one
\* (operation, timestamp) pair per entry, in the order of the log, and changes
\* neither the log nor the datasets.
C2_AuditLogAppendOnly ==
  /\ IsPrefix(old_log, cleaning_log)
  /\ Returned /\ call.op \in {"drop_duplicates", "convert_date", "convert_to_int",
                              "remove_rows", "remove_negatives"}
       => Len(cleaning_log) = Len(old_log) + 1
  /\ Returned /\ call.op = "filter_categorical"
       => Len(cleaning_log) = Len(old_log) + Cardinality(ListedPresent)
  /\ call.op = "get_cleaning_summary"
       => /\ Returned
          /\ Len(call.summary) = Len(cleaning_log)
          /\ \A i \in DOMAIN call.summary : call.summary[i].operation = cleaning_log[i]
          /\ cleaning_log = old_log
          /\ dfs = old_dfs

\* the summary is read after a filter_categorical call and another call have
\* appended their entries
C2_Witness ==
  /\ call.op = "get_cleaning_summary"
  /\ Len(cleaning_log) >= 3
  /\ \E i \in DOMAIN cleaning_log : StartsWith(cleaning_log[i], "Filtered ")
  /\ \E i \in DOMAIN cleaning_log : StartsWith(cleaning_log[i], "Removed ")

\* the key of a row under the subset of the most recent drop_duplicates call
KeyOf(row) == [k \in DOMAIN call.args.subset |-> row.v[call.args.subset[k]]]

\* the rows of the dataset before the call that carry the given key
RowsWithKey(key) == {r \in Range(Before.rows) : KeyOf(r) = key}

\* every row is one of the rows the dataset held before the call, index label and
\* contents unchanged, and the rows are in the order they were in
RowsRetainedInOrder ==
  /\ \A i \in DOMAIN After.rows : After.rows[i] \in Range(Before.rows)
  /\ \A i, j \in DOMAIN After.rows : i < j => After.rows[i].idx < After.rows[j].idx
  /\ After.columns = Before.columns

\* C3: drop_duplicates is idempotent: after a call that returned, the same call
\* made again leaves every dataset as it is and appends the entry that records 0
\* rows removed.
C3_DropDuplicatesIdempotent ==
  call.op = "drop_duplicates" /\ Returned =>
    LET again == drop_duplicates(dfs, cleaning_log, files, call.df_name,
                                 call.args.subset, call.args.keep)
    IN  /\ again.raised = ""
        /\ again.dfs = dfs
        /\ again.log = Append(cleaning_log, "Removed 0 duplicates from " \o call.df_name)

\* a first call on a composite key has removed rows and left at least two
C3_Witness ==
  /\ call.op = "drop_duplicates" /\ Returned
  /\ Len(call.args.subset) = 2
  /\ Len(After.rows) < Len(Before.rows)
  /\ Len(After.rows) >= 2

\* C4: after drop_duplicates returns, the dataset holds, with keep 'first',
\* exactly one row per key value that occurred, the earliest row with that value
\* (with 'last' the latest; with False only the rows whose key value occurred
\* once); the rows retained keep their order and contents; and the one entry
\* appended records rows-before minus rows-after.
C4_DropDuplicatesKeepsPerPolicy ==
  call.op = "drop_duplicates" /\ Returned =>
    LET keep == call.args.keep
        kept(key) == {r \in Range(After.rows) : KeyOf(r) = key}
        labels(key) == {r.idx : r \in RowsWithKey(key)}
    IN  /\ RowsRetainedInOrder
        /\ \A r \in Range(Before.rows) :
             LET key == KeyOf(r)
             IN  CASE keep = "first" ->
                        /\ Cardinality(kept(key)) = 1
                        /\ \A k \in kept(key) : \A l \in labels(key) : k.idx <= l
                   [] keep = "last" ->
                        /\ Cardinality(kept(key)) = 1
                        /\ \A k \in kept(key) : \A l \in labels(key) : k.idx >= l
                   [] keep = "False" ->
                        kept(key) = IF Cardinality(RowsWithKey(key)) = 1 THEN {r} ELSE {}
        /\ Len(After.rows) = Cardinality(Range(After.rows))
        /\ Appended = << "Removed " \o IntToStr(Len(Before.rows) - Len(After.rows))
                           \o " duplicates from " \o call.df_name >>
        /\ \A n \in DOMAIN dfs : n # call.df_name => dfs[n] = old_dfs[n]

\* keep 'last' has removed the first row, whose key came again, and kept the row
\* of another key in front of the row it kept for that key
C4_Witness ==
  /\ call.op = "drop_duplicates" /\ Returned
  /\ call.args.keep = "last"
  /\ Len(After.rows) >= 2
  /\ Before.rows[1] \notin Range(After.rows)
  /\ KeyOf(After.rows[1]) # KeyOf(Before.rows[1])
  /\ KeyOf(After.rows[Len(After.rows)]) = KeyOf(Before.rows[1])

\* the same rows in the same order: as many rows, each with the index label it had
SameRows ==
  /\ Len(After.rows) = Len(Before.rows)
  /\ \A i \in DOMAIN After.rows : After.rows[i].idx = Before.rows[i].idx
  /\ After.columns = Before.columns

\* the allowed sets a filter_categorical call lists for a column
AllowedFor(column) ==
  {call.args.column_to_allowed_list[k].allowed :
     k \in {j \in DOMAIN call.args.column_to_allowed_list :
              call.args.column_to_allowed_list[j].column = column}}

\* C5: filter_categorical on a loaded dataset returns, whether or not the dataset
\* has the listed columns, and removes no row; in each listed column the dataset
\* has, a value of the allowed set is unchanged and every other value is missing;
\* every column not listed is unchanged.
C5_FilterCategoricalNullsInPlace ==
  call.op = "filter_categorical" /\ call.df_name \in DOMAIN old_dfs =>
    /\ Returned
    /\ SameRows
    /\ \A i \in DOMAIN After.rows : \A c \in ColumnSet(Before) :
         LET was == Before.rows[i].v[c]
             is == After.rows[i].v[c]
         IN  IF AllowedFor(c) = {} THEN is = was
             ELSE \A allowed \in AllowedFor(c) :
                    /\ was.t = "str" /\ was.v \in allowed => is = was
                    /\ ~(was.t = "str" /\ was.v \in allowed) => isna(is)
                    /\ ~isna(is) => is.v \in allowed
    /\ \A n \in DOMAIN dfs : n # call.df_name => dfs[n] = old_dfs[n]

\* the list named a column the dataset lacks ahead of a column it has, and in
\* that column one value was nulled and another kept
C5_Witness ==
  /\ call.op = "filter_categorical" /\ Returned
  /\ call.args.column_to_allowed_list[1].column \notin ColumnSet(Before)
  /\ \E c \in ListedPresent :
       /\ \E i \in DOMAIN After.rows : isna(After.rows[i].v[c]) /\ ~isna(Before.rows[i].v[c])
       /\ \E i \in DOMAIN After.rows : ~isna(After.rows[i].v[c])

\* the columns remove_negatives was told to leave alone
Excluded == call.args.exclude_columns

\* a negative number
Negative(x) == x.t = "num" /\ x.v < 0

\* C6: after remove_negatives returns, no column outside the excluded ones holds
\* a negative number in any row that is left, and the call has appended one entry
\* whose count is rows-before minus rows-after (a row negative in several columns
\* counts once).
C6_RemoveNegativesPurges ==
  call.op = "remove_negatives" /\ Returned =>
    /\ \A c \in ColumnSet(After) \ Excluded :
         \A i \in DOMAIN After.rows : ~Negative(After.rows[i].v[c])
    /\ Appended = << "Removed " \o IntToStr(Len(Before.rows) - Len(After.rows))
                       \o " rows with negative values from " \o call.df_name >>
    /\ Len(After.rows) <= Len(Before.rows)

\* one row that was negative in two numeric columns, neither excluded, is gone,
\* the count recorded is 1 and another row is left
C6_Witness ==
  /\ call.op = "remove_negatives" /\ Returned
  /\ \E r \in Range(Before.rows) :
       Cardinality({c \in numeric_columns(Before) \ Excluded : Negative(r.v[c])}) >= 2
  /\ Len(Before.rows) - Len(After.rows) = 1
  /\ Len(After.rows) >= 1
  /\ Appended = << "Removed 1 rows with negative values from " \o call.df_name >>

\* C7: convert_to_int adds and removes no row and changes no cell but the missing
\* ones of its column: called without a fill value it leaves them missing,
\* called with one it makes exactly them the fill value; every value that was
\* present is the value it was.
C7_ConvertToIntPreservesMissing ==
  call.op = "convert_to_int" /\ Returned =>
    /\ SameRows
    /\ \A i \in DOMAIN After.rows : \A c \in ColumnSet(Before) :
         LET was == Before.rows[i].v[c]
             is == After.rows[i].v[c]
         IN  IF c = call.args.column /\ isna(was)
               THEN is = call.args.fill_na
             ELSE is = was
    /\ \A n \in DOMAIN dfs : n # call.df_name => dfs[n] = old_dfs[n]

\* called without a fill value on a column that held a number and a gap
C7_Witness ==
  /\ call.op = "convert_to_int" /\ Returned
  /\ isna(call.args.fill_na)
  /\ \E i \in DOMAIN After.rows : isna(After.rows[i].v[call.args.column])
  /\ \E i \in DOMAIN After.rows : After.rows[i].v[call.args.column].t = "num"
  /\ After.dtypes[call.args.column] = "Int64"

\* the formats the raw data generator writes dates and timestamps in
KnownRawFormats == {"%Y-%m-%d", "%d/%m/%Y", "%Y-%m-%d %H:%M:%S", "%d/%m/%Y %H:%M"}

\* the numbers at the places where `format` writes year, month, day, hour, minute
\* and second, for a string as long as the format writes
FieldsAt(s, format) ==
  LET num(i, j) == IF IsDigits(SubSeq(s, i, j)) THEN ParseInt(SubSeq(s, i, j)) ELSE -1
  IN  CASE format = "%Y-%m-%d" -> <<num(1, 4), num(6, 7), num(9, 10), 0, 0, 0>>
        [] format = "%d/%m/%Y" -> <<num(7, 10), num(4, 5), num(1, 2), 0, 0, 0>>
        [] format = "%Y-%m-%d %H:%M:%S" ->
             <<num(1, 4), num(6, 7), num(9, 10), num(12, 13), num(15, 16), num(18, 19)>>
        [] format = "%d/%m/%Y %H:%M" ->
             <<num(7, 10), num(4, 5), num(1, 2), num(12, 13), num(15, 16), 0>>

FormatLength(format) ==
  CASE format = "%Y-%m-%d" -> 10 [] format = "%d/%m/%Y" -> 10
    [] format = "%Y-%m-%d %H:%M:%S" -> 19 [] format = "%d/%m/%Y %H:%M" -> 16

\* the datetimes that a known raw format writes as the string s
Denoted(s) ==
  {FieldsAt(s, f) : f \in {g \in KnownRawFormats :
      /\ Len(s) = FormatLength(g)
      /\ \A k \in 1..6 : FieldsAt(s, g)[k] >= 0
      /\ ValidDatetime(FieldsAt(s, g))
      /\ strftime(FieldsAt(s, g), g) = s}}

\* C8: convert_date on a column the dataset has returns whatever strings the
\* column holds, keeps the number and order of the rows, turns every string
\* written in a known raw format into the date it denotes and every other string
\* into the missing value.
C8_ConvertDateReadsKnownFormats ==
  call.op = "convert_date" /\ call.df_name \in DOMAIN old_dfs
    /\ call.args.column \in ColumnSet(Before) =>
    /\ Returned
    /\ SameRows
    /\ \A i \in DOMAIN After.rows :
         LET was == Before.rows[i].v[call.args.column]
             is == After.rows[i].v[call.args.column]
         IN  was.t = "str" =>
               IF Denoted(was.v) # {} THEN is.t = "datetime" /\ is.v \in Denoted(was.v)
               ELSE isna(is)

\* The part of C8 that holds: the call returns, keeps the rows, and reads every
\* year-first string of a known format, and every day-first string whose day is
\* above 12, as the date it denotes.
C8_ConvertDateTotalAndRowPreserving ==
  call.op = "convert_date" /\ call.df_name \in DOMAIN old_dfs
    /\ call.args.column \in ColumnSet(Before) =>
    /\ Returned
    /\ SameRows
    /\ \A i \in DOMAIN After.rows :
         LET was == Before.rows[i].v[call.args.column]
             is == After.rows[i].v[call.args.column]
         IN  /\ is.t \in {"datetime", "na"}
             /\ was.t = "str" /\ (\E dt \in Denoted(was.v) :
                                    strftime(dt, "%Y-%m-%d") = SubSeq(was.v, 1, 10) \/ dt[3] > 12)
                  => is.t = "datetime" /\ is.v \in Denoted(was.v)

\* the DataFrame satisfies the schema: it has the declared columns and no other,
\* and each column has the declared dtype, no missing value unless nullable, no
\* repeated value if unique, and only values that pass its check
Satisfies(df, schema) ==
  /\ ColumnSet(df) = SchemaColumns(schema)
  /\ \A k \in DOMAIN schema.columns :
       LET col == schema.columns[k]
           cells == Series(df, col.name)
       IN  /\ dtype_matches(col.dtype, df.dtypes[col.name])
           /\ col.nullable \/ \A i \in DOMAIN cells : ~isna(cells[i])
           /\ col.unique => Cardinality(Range(cells)) = Len(cells)
           /\ \A i \in DOMAIN cells :
                \/ isna(cells[i])
                \/ col.check = "none"
                \/ col.check = "ge0" /\ cells[i].t = "num" /\ cells[i].v >= 0
                \/ col.check = "isin" /\ cells[i].t = "str" /\ cells[i].v \in col.allowed

\* C9: validate_df on a loaded dataset returns, changes no dataset and nothing
\* in the sink, and appends one entry: 'Validation passed for <name>' with the
\* return value True exactly when the dataset satisfies the schema, otherwise
\* 'Validation failed for <name>: <diagnostic>' with the return value False.
C9_ValidateReportsReadOnly ==
  call.op = "validate_df" /\ call.df_name \in DOMAIN old_dfs =>
    /\ Returned
    /\ dfs = old_dfs
    /\ files = old_files
    /\ Len(Appended) = 1
    /\ IF Satisfies(Before, call.args.schema)
         THEN /\ call.ret = "True"
              /\ Appended[1] = "Validation passed for " \o call.df_name
         ELSE /\ call.ret = "False"
              /\ StartsWith(Appended[1], "Validation failed for " \o call.df_name \o ": ")
              /\ Len(Appended[1]) > Len("Validation failed for " \o call.df_name \o ": ")

\* a dataset with a row has passed validation
C9_Witness ==
  /\ call.op = "validate_df" /\ call.df_name \in DOMAIN old_dfs
  /\ call.ret = "True"
  /\ Len(Before.rows) >= 1
  /\ Appended = << "Validation passed for " \o call.df_name >>

\* C10: validation of a loaded dataset whose column set is not the schema's
\* declared column set returns False, whatever the rows hold.
C10_StrictSchemaClosure ==
  call.op = "validate_df" /\ call.df_name \in DOMAIN old_dfs
    /\ ColumnSet(Before) # SchemaColumns(call.args.schema) =>
    call.ret = "False"

\* the DataFrame cut down to the columns the schema declares
DeclaredPart(df, schema) ==
  [columns |-> SelectSeq(df.columns, LAMBDA c : c \in SchemaColumns(schema)),
   dtypes |-> [c \in ColumnSet(df) \cap SchemaColumns(schema) |-> df.dtypes[c]],
   rows |-> [i \in DOMAIN df.rows |->
               [idx |-> df.rows[i].idx,
                v |-> [c \in ColumnSet(df) \cap SchemaColumns(schema) |-> df.rows[i].v[c]]]]]

\* validation has failed for a dataset with a row that has one undeclared column
\* and, in the declared columns, satisfies the schema
C10_Witness ==
  /\ call.op = "validate_df" /\ call.df_name \in DOMAIN old_dfs
  /\ call.ret = "False"
  /\ Len(Before.rows) >= 1
  /\ ColumnSet(Before) # SchemaColumns(call.args.schema)
  /\ SchemaColumns(call.args.schema) \subseteq ColumnSet(Before)
  /\ Satisfies(DeclaredPart(Before, call.args.schema), call.args.schema)

\* the non-excluded numeric columns remove_negatives looked at
Inspected == numeric_columns(Before) \ Excluded

\* the positions of the rows of `positions`, in order, as rows of Before
KeptRows(positions) == Take(Before.rows, positions)

\* C12: remove_negatives removes a row if and only if the row holds a negative
\* number in a numeric column that is not excluded: the rows left are exactly
\* the rows without such a value (a missing value is not one), unchanged and in
\* their order.
C12_RemoveNegativesIffNegative ==
  call.op = "remove_negatives" /\ Returned =>
    After.rows = KeptRows({i \in DOMAIN Before.rows :
                             \A c \in Inspected : ~Negative(Before.rows[i].v[c])})

\* what the call does: a row stays if and only if every inspected column holds a
\* number in it and that number is not negative; excluded and non-numeric
\* columns decide nothing, and the rows left are unchanged and in their order
C12_RemoveNegativesRemovesNegativeOrMissing ==
  call.op = "remove_negatives" /\ Returned =>
    /\ After.rows = KeptRows({i \in DOMAIN Before.rows :
                                \A c \in Inspected :
                                  ~Negative(Before.rows[i].v[c]) /\ ~isna(Before.rows[i].v[c])})
    /\ After.columns = Before.columns

\* a row without a negative number, with a missing value in an inspected column,
\* has been removed
C12_RowWithGapRemoved ==
  /\ call.op = "remove_negatives" /\ Returned
  /\ \E i \in DOMAIN Before.rows :
       /\ \A c \in Inspected : ~Negative(Before.rows[i].v[c])
       /\ \E c \in Inspected : isna(Before.rows[i].v[c])
       /\ \A r \in Range(After.rows) : r.idx # Before.rows[i].idx

\* the number of cells of column c that held a value outside the allowed set
\* before the call and are missing after it
Nulled(c) ==
  Cardinality({i \in DOMAIN Before.rows :
                 ~isna(Before.rows[i].v[c]) /\ isna(After.rows[i].v[c])})

\* the entry a filter_categorical call with count n writes for column c
FilterEntry(n, c) ==
  "Filtered " \o IntToStr(n) \o " invalid values from " \o c \o " in " \o call.df_name

\* the listed columns the dataset has, in the order listed
ListedPresentSeq ==
  SelectSeq([k \in DOMAIN call.args.column_to_allowed_list |->
               call.args.column_to_allowed_list[k].column],
            LAMBDA c : c \in ColumnSet(Before))

\* C13: for each listed column the dataset has, the count in the entry
\* filter_categorical appends is the number of values the call nulled: the
\* values that were present and outside the allowed set before the call.
C13_FilterCountIsNulledCount ==
  call.op = "filter_categorical" /\ Returned =>
    Appended = [k \in DOMAIN ListedPresentSeq |->
                  FilterEntry(Nulled(ListedPresentSeq[k]), ListedPresentSeq[k])]

\* what the call records: the number of cells of the column that are not in the
\* allowed set, the cells that were missing already included
C13_FilterCountIncludesMissing ==
  call.op = "filter_categorical" /\ Returned =>
    Appended = [k \in DOMAIN ListedPresentSeq |->
                  FilterEntry(Nulled(ListedPresentSeq[k])
                                + Cardinality({i \in DOMAIN Before.rows :
                                                 isna(Before.rows[i].v[ListedPresentSeq[k]])}),
                              ListedPresentSeq[k])]

\* a second call with the same arguments nulled nothing and recorded a count
\* that is not 0
C13_RepeatedCallCountsMissing ==
  /\ call.op = "filter_categorical" /\ Returned
  /\ After = Before
  /\ \E k \in DOMAIN Appended : ~StartsWith(Appended[k], "Filtered 0 ")

(***************************************************************************)
(* The driver run.                                                         *)
(***************************************************************************)
\* the positions of the script's validation calls
ValidateAt == {i \in DOMAIN Driver : Driver[i].op = "validate_df"}

\* the cleaning chain has run to its end: the script stands at its first
\* validation call or beyond
ChainDone == \E i \in ValidateAt : (\A j \in ValidateAt : i <= j) /\ pc >= i

\* the records of a DataFrame, as validation reads them and to_csv writes them
Records(df) == [i \in DOMAIN df.rows |-> df.rows[i].v]

UniqueIn(records, column) ==
  \A i, j \in DOMAIN records : i # j => records[i][column] # records[j][column]

WhitelistedOrMissing(records, column, allowed) ==
  \A i \in DOMAIN records :
    isna(records[i][column]) \/ (records[i][column].t = "str" /\ records[i][column].v \in allowed)

\* the data-model invariants of the three datasets, on the records of one
DataModelInvariant(name, records) ==
  CASE name = "customers" ->
         /\ UniqueIn(records, "customer_id")
         /\ WhitelistedOrMissing(records, "country", ALLOWED_COUNTRIES)
         /\ WhitelistedOrMissing(records, "gender", ALLOWED_GENDERS)
         /\ WhitelistedOrMissing(records, "plan_type", ALLOWED_PLANS)
    [] name = "transactions" ->
         /\ \A i \in DOMAIN records : records[i]["customer_id"] # Str("C999999")
         /\ \A i \in DOMAIN records : \A c \in DOMAIN records[i] : ~Negative(records[i][c])
    [] name = "support_interactions" ->
         /\ UniqueIn(records, "ticket_id")
         /\ WhitelistedOrMissing(records, "channel", ALLOWED_CHANNELS)
         /\ WhitelistedOrMissing(records, "issue_type", ALLOWED_ISSUE_TYPES)

\* the file save_df writes for a dataset in the script
CleanPath(name) == "../data/2_clean/" \o name \o "_clean.csv"

\* C11: once the script's cleaning chain has run to its end, each of the three
\* datasets satisfies its data-model invariants (unique customer_id and
\* whitelisted-or-missing country, gender, plan_type; no 'C999999' row and no
\* negative number; unique ticket_id and whitelisted-or-missing channel,
\* issue_type), and so does every file the script has written.
C11_CleanedDataSatisfiesInvariants ==
  ChainDone =>
    /\ \A name \in DatasetNames : DataModelInvariant(name, Records(dfs[name]))
    /\ \A name \in DatasetNames :
         CleanPath(name) \in DOMAIN files =>
           DataModelInvariant(name, files[CleanPath(name)].records)

\* the script has run to its end on raw files with a repeated customer, an
\* out-of-whitelist category, the orphan customer id and a negative amount:
\* the chain removed or nulled each, rows are left, and the files are written
C11_Witness ==
  /\ pc = Finished
  /\ \E k \in DOMAIN cleaning_log : cleaning_log[k] = "Removed 1 duplicates from customers"
  /\ \E k \in DOMAIN cleaning_log :
       cleaning_log[k] = "Filtered 1 invalid values from country in customers"
  /\ \E k \in DOMAIN cleaning_log :
       cleaning_log[k] = "Removed 1 rows from transactions where customer_id == 'C999999'"
  /\ \E k \in DOMAIN cleaning_log :
       cleaning_log[k] = "Removed 1 rows with negative values from transactions"
  /\ \E k \in DOMAIN cleaning_log :
       cleaning_log[k] = "Filtered 2 invalid values from channel in support_interactions"
  /\ \A name \in DatasetNames :
       /\ Len(dfs[name].rows) >= 1
       /\ CleanPath(name) \in DOMAIN files

\* the audit entry of a validation call
IsValidationEntry(e) == StartsWith(e, "Validation passed for ") \/ StartsWith(e, "Validation failed for ")

\* dataset `name` has been validated: the log holds the entry of its validation
Validated(name) ==
  \E k \in DOMAIN cleaning_log :
    \/ cleaning_log[k] = "Validation passed for " \o name
    \/ StartsWith(cleaning_log[k], "Validation failed for " \o name \o ": ")

\* the order of the run, as the log and the sink show it: a file is in the sink
\* only when all three datasets have been validated, only validation entries
\* follow a validation entry in the log, a validation call never ends the
\* script, and a script that ran to its end has written every dataset as it is
DriverOrder ==
  /\ files # <<>> => \A name \in DatasetNames : Validated(name)
  /\ \A j, k \in DOMAIN cleaning_log :
       j < k /\ IsValidationEntry(cleaning_log[j]) => IsValidationEntry(cleaning_log[k])
  /\ pc = Aborted => call.op \notin {"validate_df", "save_df"}
  /\ pc = Finished =>
       \A name \in DatasetNames :
         CleanPath(name) \in DOMAIN files /\ files[CleanPath(name)] = to_csv(dfs[name])

\* every dataset is in the sink
AllSaved == \A name \in DatasetNames : CleanPath(name) \in DOMAIN files

\* C14: in the driver run the cleaning operations come first, then the
\* validation of all three datasets, then the saving of all three: no dataset
\* is saved before it is validated, no cleaning operation runs after a
\* validation, and once the validation has been reached every dataset is saved
\* in the end, whatever the validations returned.
C14_DriverOrderAndUngatedSave ==
  /\ []DriverOrder
  /\ ChainDone ~> AllSaved

\* the script has run to its end, a validation has returned False and all three
\* datasets are in the sink
C14_Witness ==
  /\ pc = Finished
  /\ AllSaved
  /\ \E k \in DOMAIN cleaning_log : StartsWith(cleaning_log[k], "Validation failed for ")

====
